---- MODULE Spec2Model ----
(***************************************************************************)
(* Model of templer.core's control_script.py: the Runner that parses the   *)
(* command line, looks the template up, resolves the output name and calls *)
(* the paster "create" command.                                            *)
(*                                                                         *)
(* Python strings are sequences of one-character strings, so that find,    *)
(* split, count and the "in" substring test are computed, not assumed.     *)
(* None is the one-element sequence <<"None">>: no Python string equals it.*)
(***************************************************************************)
EXTENDS Integers, Sequences, FiniteSets, TLC

\* ---------------------------------------------------------------- bounds
\* Longest command line (sys.argv[1:]) explored.
MaxArgs == 3

\* ------------------------------------------------------- program constants
\* _checkdots: "if cdots > 5"
MaxDots == 5

None == <<"None">>

\* ------------------------------------------------------------ string data
S_skel      == <<"s","k","e","l">>
S_empty     == <<>>
S_q         == <<"q">>
S_foo_bar   == <<"f","o","o",".","b","a","r">>
S_foo__bar  == <<"f","o","o",".",".","b","a","r">>
S_deep      == <<"a",".","b",".","c",".","d",".","e",".","f",".","g">>
S_author_me == <<"a","u","t","h","o","r","=","m","e">>
S_author_yo == <<"a","u","t","h","o","r","=","y","o">>
S_k_v       == <<"k","=","v">>
S_eq_foo    == <<"=","f","o","o">>
S_a_b_c     == <<"a","=","b","=","c">>
S_svn_x     == <<"-","-","s","v","n","-","r","e","p","o","s","i","t","o","r","y","=","x">>
S_listvars  == <<"-","-","l","i","s","t","-","v","a","r","i","a","b","l","e","s">>
S_svn_repository == <<"s","v","n","-","r","e","p","o","s","i","t","o","r","y">>
S_dash_q    == <<"-","q">>
S_dash_t    == <<"-","t">>

\* The command-line tokens the runs are drawn from.
Tokens == { S_skel, S_empty, S_foo_bar, S_foo__bar, S_deep, S_author_me,
            S_author_yo, S_k_v, S_eq_foo, S_a_b_c, S_svn_x, S_listvars }

\* What the operator may type at "Enter project name (or q to quit)".
Answers == { S_q, S_empty, S_foo_bar, S_foo__bar, S_deep }

\* All command lines of at most MaxArgs tokens.
ArgLists == UNION { [1..n -> Tokens] : n \in 0..MaxArgs }

\* --------------------------------------------------- Python str operations
\* s.find(c): 0-based index of the first c in s, -1 when there is none.
RECURSIVE FindFrom(_, _, _)
FindFrom(s, c, i) ==
    IF i > Len(s) THEN 0 - 1
    ELSE IF s[i] = c THEN i - 1
    ELSE FindFrom(s, c, i + 1)

Find(s, c) == FindFrom(s, c, 1)

\* s.count(c)
RECURSIVE Count(_, _)
Count(s, c) ==
    IF s = <<>> THEN 0
    ELSE (IF Head(s) = c THEN 1 ELSE 0) + Count(Tail(s), c)

\* s.split(c): the parts between the separators, empty parts included.
RECURSIVE Split(_, _)
Split(s, c) ==
    LET i == Find(s, c) IN
    IF i = 0 - 1 THEN << s >>
    ELSE << SubSeq(s, 1, i) >> \o Split(SubSeq(s, i + 2, Len(s)), c)

\* sub in s (substring test)
Contains(sub, s) ==
    \E i \in 0..(Len(s) - Len(sub)) : SubSeq(s, i + 1, i + Len(sub)) = sub

\* Python truth value of an output name: None and '' are false.
Truthy(name) == name # None /\ name # <<>>

\* x in list
InList(x, list) == \E i \in 1..Len(list) : list[i] = x

\* ------------------------------------------------------------- exceptions
NoExc == [type |-> "none", msg |-> <<>>]
MSG_NO_TEMPLATE == <<"No template name provided">>
MSG_SVN_WARNING == <<"svn_warning">>
MSG_UNPACK      == <<"too many values to unpack">>
MSG_FIVE_DOTS   == <<"Five dots should be more than enough, no black hole please">>
MSG_INTERRUPT   == <<"KeyboardInterrupt">>
MSG_GENERATOR   == <<"generator failed">>

Exc(type, msg) == [type |-> type, msg |-> msg]

\* ------------------------------------------------------- dict operations
EmptyDict == [k \in {} |-> <<>>]

\* d[key] = val
DictSet(d, key, val) ==
    [k \in DOMAIN d \cup {key} |-> IF k = key THEN val ELSE d[k]]

\* '%s=%s' % (v, k): the two arguments in the wrong order.
FormatOpt_swapped(k, v) == v \o <<"=">> \o k

\* '%s=%s' % (k, v)
FormatOpt(k, v) == k \o <<"=">> \o v

\* The orders in which dict.items() may yield the entries of d.
ItemOrders(d) ==
    { f \in [1..Cardinality(DOMAIN d) -> DOMAIN d] :
        \A k \in DOMAIN d : \E i \in 1..Cardinality(DOMAIN d) : f[i] = k }

\* ------------------------------------------------------ Runner._process_args
\* "if eq_index == -1" without "and not output_name": every bare token
\* becomes the output name.
IsOutputName_any(eq_index, output_name) == eq_index = 0 - 1

\* "elif eq_index >= 0": a leading '=' counts as key=value with an empty key.
IsKeyValue_from0(eq_index) == eq_index >= 0

\* "if key == 'svn-repository'": equality where the code tests containment.
IsSvnKey_equal(key) == key = S_svn_repository

\* "if eq_index == -1 and not output_name"
IsOutputName(eq_index, output_name) == eq_index = 0 - 1 /\ ~Truthy(output_name)

\* "elif eq_index > 0"
IsKeyValue(eq_index) == eq_index > 0

\* "if 'svn-repository' in key"
IsSvnKey(key) == Contains(S_svn_repository, key)

\* "key, val = arg.split('=')" unpacks only a list of exactly two parts.
Unpacks(parts) == Len(parts) = 2

\* The "for arg in args" loop from position i on, with the loop's locals.
\* Yields the exception raised (NoExc when the loop runs to its end), the
\* position of the token that raised, and output_name and others.
RECURSIVE ArgLoop(_, _, _, _)
ArgLoop(args, i, output_name, others) ==
    IF i > Len(args)
    THEN [exc |-> NoExc, at |-> 0, output_name |-> output_name, others |-> others]
    ELSE
      LET arg == args[i]
          eq_index == Find(arg, "=")
      IN
      IF IsOutputName(eq_index, output_name)
      THEN ArgLoop(args, i + 1, arg, others)
      ELSE IF IsKeyValue(eq_index)
      THEN LET parts == Split(arg, "=") IN
           IF ~Unpacks(parts)
           THEN [exc |-> Exc("ValueError", MSG_UNPACK), at |-> i,
                 output_name |-> output_name, others |-> others]
           ELSE IF IsSvnKey(parts[1])
           THEN [exc |-> Exc("SyntaxError", MSG_SVN_WARNING), at |-> i,
                 output_name |-> output_name, others |-> others]
           ELSE ArgLoop(args, i + 1, output_name, DictSet(others, parts[1], parts[2]))
      ELSE [exc |-> Exc("SyntaxError", arg), at |-> i,
            output_name |-> output_name, others |-> others]

\* args.pop(0): the list that is left in the caller's hands.
PopFirst(args) == Tail(args)

\* _process_args(args): the exception or the returned tuple, and the list
\* object args as the call leaves it.
ProcessArgs(args) ==
    IF Len(args) = 0
    THEN [exc |-> Exc("SyntaxError", MSG_NO_TEMPLATE), at |-> 0, args |-> args,
          template_name |-> None, output_name |-> None, others |-> EmptyDict]
    ELSE
      LET rest == PopFirst(args)
          r == ArgLoop(rest, 1, None, EmptyDict)
      IN [exc |-> r.exc, at |-> r.at, args |-> rest,
          template_name |-> Head(args), output_name |-> r.output_name,
          others |-> r.others]

\* ---------------------------------------------------------- Runner._checkdots
\* _checkdots comparing the dots with the template's ndots and nothing
\* else: no ceiling, and no check at all when ndots is not declared.
Checkdots_expected(template, name) ==
    LET cdots == Count(name, ".") IN
    IF template.ndots # 0 - 1 /\ cdots # template.ndots
    THEN Exc("ValueError", MSG_FIVE_DOTS) ELSE NoExc

\* The exception _checkdots raises for name, NoExc when it returns.
Checkdots(template, name) ==
    LET cdots == Count(name, ".") IN
    IF cdots > MaxDots THEN Exc("ValueError", MSG_FIVE_DOTS) ELSE NoExc

\* ------------------------------------------------------- external registry
\* The installed paste.paster_create_template entry points.
T_skel == [name |-> S_skel, ndots |-> 1, help |-> TRUE]
NoTemplate == [name |-> None, ndots |-> 0, help |-> FALSE]

\* list(pkg_resources.iter_entry_points(group, template_name))
EntryPoints(name) == IF name = S_skel THEN << T_skel >> ELSE << >>

\* getattr(template, 'ndots', None) when the template declares no ndots.
NoNdots == 0 - 1

\* rez[0].load(): the template class the entry point loads is the plugin's;
\* it may declare no ndots, or an ndots of any size.
Load(entry) == { [entry EXCEPT !.ndots = d] : d \in {NoNdots, 1, 6} }

\* DOT_HELP.get(ndots) is a text for 0, 1 and 2 dots only.
HasDotHelp(ndots) == ndots \in {0, 1, 2}

\* ------------------------------------------------------------------ state
VARIABLES
    argv0,          \* the command line as the caller passed it (never changed)
    argv,           \* the list object handed to Runner.__call__
    pc,             \* where the run stands: start, lookup, resolve, prompt, invoke, done
    template_name,  \* locals of __call__
    output_name,
    opts,
    template,
    short_circuit,
    special_args,
    answer,         \* the last answer command.challenge returned, None before
    prompts,        \* number of times command.challenge was called
    calls,          \* the token lists command.run was called with, in order
    sys_exit,       \* << >> while running, << code >> once sys.exit(code) ran
    raised,         \* the exception that left __call__, NoExc when none did
    err_at,         \* position (after the template name) of the token that failed the parse
    stdout,         \* what was printed, as tags
    events,         \* the steps the run went through
    class_texts,    \* the dict Runner.texts, an attribute of the class
    runners,        \* the Runner instances constructed so far, in order
    cfg             \* the resolution of the default-configuration file

\* The state of one call of the runner.
callvars == << argv0, argv, pc, template_name, output_name, opts, template,
               short_circuit, special_args, answer, prompts, calls, sys_exit,
               raised, err_at, stdout, events >>

\* The state of the module's objects.
objvars == << class_texts, runners, cfg >>

vars == << callvars, objvars >>

\* ---------------------------------------------------------- Runner objects
\* Runner.texts as the class statement leaves it (lines 216-224).
DefaultTexts ==
    [ k \in { "usage", "description", "dot_help", "dotfile_header",
              "help_prompt", "svn_warning", "id_warning" } |->
        IF k = "usage" THEN "USAGE"
        ELSE IF k = "description" THEN "DESCRIPTION"
        ELSE IF k = "dot_help" THEN "DOT_HELP"
        ELSE IF k = "dotfile_header" THEN "DOTFILE_HEADER"
        ELSE IF k = "help_prompt" THEN "HELP_PROMPT"
        ELSE IF k = "svn_warning" THEN "SVN_WARNING"
        ELSE "ID_WARNING" ]

\* The default of the parameter: texts={}
NoTexts == [k \in {} |-> ""]

\* dict.update: d with the entries of t put over it.
DictUpdate(d, t) ==
    [k \in DOMAIN d \cup DOMAIN t |-> IF k \in DOMAIN t THEN t[k] ELSE d[k]]

\* __init__ with a dict for texts (lines 228-246).  self.texts finds the
\* class attribute, no instance has a texts of its own, so update() changes
\* the one dict of the class.  seen records what the new Runner's texts were
\* when it was made.
Constructed(name, texts) ==
    [ class_texts |-> DictUpdate(class_texts, texts),
      runner |-> [name |-> name, seen |-> DictUpdate(class_texts, texts)] ]

\* self.texts of the i-th Runner: the attribute is looked up on the class.
TextsOf(i) == class_texts

\* The module as imported: line 506 has made templer_runner = Runner().
ObjInit ==
    /\ class_texts = DefaultTexts
    /\ runners = << [name |-> "templer", seen |-> DefaultTexts] >>

\* No configuration is being resolved.
NoConfig == [pc |-> "none"]

Init ==
    /\ argv0 \in ArgLists
    /\ argv = argv0
    /\ pc = "start"
    /\ template_name = None
    /\ output_name = None
    /\ opts = EmptyDict
    /\ template = NoTemplate
    /\ short_circuit = FALSE
    /\ special_args = << >>
    /\ answer = None
    /\ prompts = 0
    /\ calls = << >>
    /\ sys_exit = << >>
    /\ raised = NoExc
    /\ err_at = 0
    /\ stdout = << >>
    /\ events = {}
    /\ ObjInit
    /\ cfg = NoConfig

\* __call__, lines 253-260: _process_args under "except SyntaxError".  The
\* handler prints and re-raises; the sys.exit(1) after "raise" never runs.
\* A ValueError of the unpacking is not a SyntaxError and passes through.
ParseArgs ==
    /\ pc = "start"
    /\ LET r == ProcessArgs(argv) IN
       /\ argv' = r.args
       /\ err_at' = r.at
       /\ IF r.exc = NoExc
          THEN /\ template_name' = r.template_name
               /\ output_name' = r.output_name
               /\ opts' = r.others
               /\ pc' = "lookup"
               /\ events' = events \cup {"parsed"}
               /\ UNCHANGED << raised, stdout >>
          ELSE /\ raised' = r.exc
               /\ pc' = "done"
               /\ events' = events \cup {"parse_failed"}
               /\ stdout' = IF r.exc.type = "SyntaxError"
                            THEN stdout \o << "usage", "ERROR: arguments" >>
                            ELSE stdout
               /\ UNCHANGED << template_name, output_name, opts >>
    /\ UNCHANGED objvars
    /\ UNCHANGED << argv0, template, short_circuit, special_args, answer,
                    prompts, calls, sys_exit >>

\* TemplateLookup with sys.exit(0) where line 269 has sys.exit(1).
TemplateLookup_exit0 ==
    /\ pc = "lookup"
    /\ LET rez == EntryPoints(template_name) IN
       IF Len(rez) = 0
       THEN /\ stdout' = stdout \o << "usage", "ERROR: No such template" >>
            /\ sys_exit' = << 0 >>
            /\ pc' = "done"
            /\ events' = events \cup {"not_found"}
            /\ UNCHANGED template
       ELSE /\ template' \in Load(rez[1])
            /\ stdout' = stdout \o << "summary" >>
                                \o (IF rez[1].help THEN << "help" >> ELSE << >>)
            /\ pc' = "resolve"
            /\ events' = events \cup {"found"}
            /\ UNCHANGED sys_exit
    /\ UNCHANGED objvars
    /\ UNCHANGED << argv0, argv, template_name, output_name, opts, short_circuit,
                    special_args, answer, prompts, calls, raised, err_at >>

\* __call__, lines 262-278: the entry point lookup.
TemplateLookup ==
    /\ pc = "lookup"
    /\ LET rez == EntryPoints(template_name) IN
       IF Len(rez) = 0
       THEN /\ stdout' = stdout \o << "usage", "ERROR: No such template" >>
            /\ sys_exit' = << 1 >>
            /\ pc' = "done"
            /\ events' = events \cup {"not_found"}
            /\ UNCHANGED template
       ELSE /\ template' \in Load(rez[1])
            /\ stdout' = stdout \o << "summary" >>
                                \o (IF rez[1].help THEN << "help" >> ELSE << >>)
            /\ pc' = "resolve"
            /\ events' = events \cup {"found"}
            /\ UNCHANGED sys_exit
    /\ UNCHANGED objvars
    /\ UNCHANGED << argv0, argv, template_name, output_name, opts, short_circuit,
                    special_args, answer, prompts, calls, raised, err_at >>

\* NameResolution with the handler of lines 293-296 swallowing the error:
\* it prints and goes on instead of re-raising.
NameResolution_swallow ==
    /\ pc = "resolve"
    /\ IF InList(S_listvars, argv)
       THEN /\ special_args' = Append(special_args, S_listvars)
            /\ short_circuit' = TRUE
            /\ output_name' = None
            /\ pc' = "invoke"
            /\ events' = events \cup {"bypass"}
            /\ UNCHANGED << raised, stdout >>
       ELSE IF Truthy(output_name)
       THEN LET e == Checkdots(template, output_name) IN
            /\ IF e = NoExc
               THEN /\ stdout' = stdout \o << "help_prompt" >>
                    /\ events' = events \cup {"validated"}
               ELSE /\ stdout' = stdout \o << "ERROR: name" >>
                    /\ events' = events \cup {"invalid"}
            /\ pc' = "invoke"
            /\ UNCHANGED << special_args, short_circuit, output_name, raised >>
       ELSE /\ pc' = "prompt"
            /\ UNCHANGED << special_args, short_circuit, output_name, raised,
                            stdout, events >>
    /\ UNCHANGED objvars
    /\ UNCHANGED << argv0, argv, template_name, opts, template, answer, prompts,
                    calls, sys_exit, err_at >>


\* __call__, lines 280-299 and 316: the --list-variables bypass, or the
\* check of a name given on the command line, or the way into the prompt.
NameResolution ==
    /\ pc = "resolve"
    /\ IF InList(S_listvars, argv)
       THEN /\ special_args' = Append(special_args, S_listvars)
            /\ short_circuit' = TRUE
            /\ output_name' = None
            /\ pc' = "invoke"
            /\ events' = events \cup {"bypass"}
            /\ UNCHANGED << raised, stdout >>
       ELSE IF Truthy(output_name)
       THEN LET e == Checkdots(template, output_name) IN
            /\ IF e = NoExc
               THEN /\ stdout' = stdout \o << "help_prompt" >>
                    /\ pc' = "invoke"
                    /\ events' = events \cup {"validated"}
                    /\ UNCHANGED raised
               ELSE /\ stdout' = stdout \o << "ERROR: name" >>
                    /\ raised' = e
                    /\ pc' = "done"
                    /\ events' = events \cup {"invalid"}
            /\ UNCHANGED << special_args, short_circuit, output_name >>
       ELSE /\ pc' = "prompt"
            /\ UNCHANGED << special_args, short_circuit, output_name, raised,
                            stdout, events >>
    /\ UNCHANGED objvars
    /\ UNCHANGED << argv0, argv, template_name, opts, template, answer, prompts,
                    calls, sys_exit, err_at >>

\* What one pass of the "while True" body prints before it asks.
LoopHelp == IF HasDotHelp(template.ndots) THEN << "dot_help" >> ELSE << >>

\* __call__, lines 300-316: one pass of the loop in which command.challenge
\* returns a.  'q' exits 0; a ValueError of _checkdots is printed and
\* re-raised out of the loop; otherwise "else: break".
Prompt ==
    /\ pc = "prompt"
    /\ \E a \in Answers :
       /\ answer' = a
       /\ output_name' = a
       /\ prompts' = prompts + 1
       /\ IF a = S_q
          THEN /\ stdout' = stdout \o LoopHelp \o << "Exiting" >>
               /\ sys_exit' = << 0 >>
               /\ pc' = "done"
               /\ events' = events \cup {"quit"}
               /\ UNCHANGED raised
          ELSE LET e == Checkdots(template, a) IN
               IF e = NoExc
               THEN /\ stdout' = stdout \o LoopHelp \o << "help_prompt" >>
                    /\ pc' = "invoke"
                    /\ events' = events \cup {"validated"}
                    /\ UNCHANGED << raised, sys_exit >>
               ELSE /\ stdout' = stdout \o LoopHelp \o << "ERROR: name" >>
                    /\ raised' = e
                    /\ pc' = "done"
                    /\ events' = events \cup {"invalid"}
                    /\ UNCHANGED sys_exit
    /\ UNCHANGED objvars
    /\ UNCHANGED << argv0, argv, template_name, opts, template, short_circuit,
                    special_args, calls, err_at >>

\* __call__, lines 303-312: the operator interrupts command.challenge.  The
\* loop catches ValueError only, so the KeyboardInterrupt leaves __call__.
PromptInterrupt ==
    /\ pc = "prompt"
    /\ prompts' = prompts + 1
    /\ stdout' = stdout \o LoopHelp
    /\ raised' = Exc("KeyboardInterrupt", MSG_INTERRUPT)
    /\ pc' = "done"
    /\ events' = events \cup {"prompt_interrupt"}
    /\ UNCHANGED objvars
    /\ UNCHANGED << argv0, argv, template_name, output_name, opts, template,
                    short_circuit, special_args, answer, calls, sys_exit, err_at >>

\* optslist.append(output_name): the output name after the key=value tokens.
OptsList_append(order) ==
    LET pairs == [i \in 1..Len(order) |-> FormatOpt(order[i], opts[order[i]])]
    IN IF output_name # None THEN pairs \o << output_name >> ELSE pairs

\* lines 318-320: the key=value tokens in the order items() gave, the output
\* name inserted in front when it is not None.
OptsList(order) ==
    LET pairs == [i \in 1..Len(order) |-> FormatOpt(order[i], opts[order[i]])]
    IN IF output_name # None THEN << output_name >> \o pairs ELSE pairs

\* line 322: the list command.run is called with.
RunArgs(order) ==
    << S_dash_q, S_dash_t, template_name >> \o OptsList(order) \o special_args

\* __call__, lines 318-330: command.run returns, is interrupted, or raises.
Invoke ==
    /\ pc = "invoke"
    /\ \E order \in ItemOrders(opts) :
          calls' = Append(calls, RunArgs(order))
    /\ \E result \in {"returns", "KeyboardInterrupt", "Exception"} :
          IF result = "returns"
          THEN /\ sys_exit' = << 0 >>
               /\ events' = events \cup {"invoked", "generated"}
               /\ UNCHANGED << raised, stdout >>
          ELSE IF result = "KeyboardInterrupt"
          THEN /\ stdout' = stdout \o << "Exiting" >>
               /\ sys_exit' = << 0 >>
               /\ events' = events \cup {"invoked", "run_interrupt"}
               /\ UNCHANGED raised
          ELSE /\ stdout' = stdout \o << "ERROR: generator" >>
               /\ raised' = Exc("Exception", MSG_GENERATOR)
               /\ events' = events \cup {"invoked", "run_failed"}
               /\ UNCHANGED sys_exit
    /\ pc' = "done"
    /\ UNCHANGED objvars
    /\ UNCHANGED << argv0, argv, template_name, output_name, opts, template,
                    short_circuit, special_args, answer, prompts, err_at >>

Next ==
    \/ ParseArgs
    \/ TemplateLookup
    \/ NameResolution
    \/ Prompt
    \/ PromptInterrupt
    \/ Invoke

Spec == Init /\ [][Next]_vars

\* run(), lines 526-527: runner(args) is the last statement and nothing
\* catches around it.  The process ends with the code given to sys.exit, or
\* with status 1 when an exception leaves __call__ (the interpreter prints the
\* traceback).  << >> while the run is going on.
ExitCode ==
    IF sys_exit # << >> THEN sys_exit
    ELSE IF raised # NoExc THEN << 1 >>
    ELSE << >>

\* ======================================================= claims' vocabulary
\* The tokens after the template name, as the caller typed them.
Rest == IF Len(argv0) = 0 THEN << >> ELSE Tail(argv0)

Bare(tok) == Find(tok, "=") = 0 - 1

\* The part of tok before its first '=' (the key of a key=value token).
KeyOf(tok) == SubSeq(tok, 1, Find(tok, "="))

HasKey(tok) == Find(tok, "=") > 0

SvnToken(tok) == HasKey(tok) /\ Contains(S_svn_repository, KeyOf(tok))

\* key=value with one '=' and a key the front end supports.
PlainPair(tok) == HasKey(tok) /\ Count(tok, "=") = 1 /\ ~SvnToken(tok)

Letters == { "a","b","c","d","e","f","g","h","i","j","k","l","m","n","o","p",
             "q","r","s","t","u","v","w","x","y","z","_" }
Digits  == { "0","1","2","3","4","5","6","7","8","9" }

\* A legal identifier: a letter or underscore, then letters, digits, underscores.
LegalIdentifier(seg) ==
    /\ Len(seg) > 0
    /\ seg[1] \in Letters
    /\ \A i \in 1..Len(seg) : seg[i] \in Letters \cup Digits

AllSegmentsLegal(name) ==
    LET segs == Split(name, ".") IN \A i \in 1..Len(segs) : LegalIdentifier(segs[i])

ParseFailed == "parse_failed" \in events
Finished    == pc = "done"

\* ---------------------------------------------------------------------- C1
\* C1: command.run is called only after the command line parsed, the
\* template was found and the output name passed _checkdots (or the
\* --list-variables bypass was taken); a run in which the parse failed, the
\* lookup found nothing, the name check failed or the operator answered 'q'
\* never calls command.run.
C1_GeneratorOnlyAfterResolution ==
    /\ Len(calls) > 0 =>
          /\ ProcessArgs(argv0).exc = NoExc
          /\ Len(EntryPoints(Head(argv0))) > 0
          /\ \/ short_circuit
             \/ /\ "validated" \in events
                /\ Count(output_name, ".") <= MaxDots
                /\ "invalid" \notin events
    /\ events \cap {"parse_failed", "not_found", "invalid", "quit"} # {} =>
          Len(calls) = 0
    /\ Len(calls) <= 1

\* A run that reached the generator with a validated name, and none bypassed.
C1_Witness ==
    /\ Len(calls) = 1
    /\ ~short_circuit
    /\ "validated" \in events

\* ---------------------------------------------------------------------- C2
\* C2: in the name prompt loop a valid answer leaves the loop towards the
\* generator, 'q' ends the run with exit code 0, and an answer that fails
\* _checkdots leads to another prompt: it never ends the loop or the run.
C2_PromptLoopThreeExits ==
    (prompts > 0 /\ answer # None) =>
       IF answer = S_q
       THEN Finished /\ sys_exit = << 0 >> /\ Len(calls) = 0
       ELSE IF Checkdots(template, answer) = NoExc
       THEN pc = "invoke" \/ (Finished /\ Len(calls) = 1)
       ELSE pc = "prompt" /\ raised = NoExc /\ sys_exit = << >>

\* ---------------------------------------------------------------------- C3
Aborted   == ExitCode = << 1 >>
Cancelled == ExitCode = << 0 >> /\ events \cap {"quit", "run_interrupt"} # {}
Completed == ExitCode = << 0 >> /\ "generated" \in events

\* C3: a finished run is in exactly one of Aborted (exit code 1), Cancelled
\* (exit code 0) and Completed (exit code 0); every failure (parse failure,
\* no such template, invalid supplied name, generator raising) is Aborted.
C3_ThreeTerminalStates ==
    Finished =>
       /\ ExitCode \in { << 0 >>, << 1 >> }
       /\ \/ Aborted /\ ~Cancelled /\ ~Completed
          \/ ~Aborted /\ Cancelled /\ ~Completed
          \/ ~Aborted /\ ~Cancelled /\ Completed
       /\ events \cap {"parse_failed", "not_found", "invalid", "run_failed"} # {}
             => Aborted
       /\ "quit" \in events => Cancelled
       /\ "generated" \in events => Completed

\* A run aborted because no template has the name given.
C3_Witness ==
    /\ Finished
    /\ "not_found" \in events
    /\ ExitCode = << 1 >>

\* ---------------------------------------------------------------------- C4
\* A command line "<existing template> ..." holding --list-variables, at most
\* one output name and any number of supported key=value tokens.
ListVariablesLine ==
    /\ Len(argv0) > 0
    /\ Len(EntryPoints(Head(argv0))) > 0
    /\ InList(S_listvars, Rest)
    /\ \A i \in 1..Len(Rest) : Rest[i] = S_listvars \/ Bare(Rest[i]) \/ PlainPair(Rest[i])
    /\ Cardinality({ i \in 1..Len(Rest) : Bare(Rest[i]) /\ Rest[i] # S_listvars }) <= 1

\* The tokens of a command.run call after '-q', '-t', template_name.
CallTail(call) == SubSeq(call, 4, Len(call))

\* C4: every such command line skips the name check and the prompt and
\* reaches command.run, called with no output name and with --list-variables.
C4_ListVariablesReachesGenerator ==
    (Finished /\ ListVariablesLine) =>
       /\ Len(calls) = 1
       /\ InList(S_listvars, calls[1])
       /\ \A i \in 1..Len(CallTail(calls[1])) :
             CallTail(calls[1])[i] = S_listvars \/ ~Bare(CallTail(calls[1])[i])
       /\ prompts = 0
       /\ events \cap {"validated", "invalid"} = {}

\* ---------------------------------------------------------------------- C5
\* _checkdots was called; output_name is the name it was called with.
Checked == events \cap {"validated", "invalid"} # {}

\* C5: _checkdots accepts every name with as many dots as the template
\* expects (up to the ceiling of five, C13) whose segments are all legal
\* identifiers, and rejects every name with a segment that is no legal
\* identifier (digit first, or empty).
C5_CheckdotsIdentifiers ==
    Checked =>
       /\ (Count(output_name, ".") = template.ndots /\ template.ndots <= MaxDots
             /\ AllSegmentsLegal(output_name))
             => "validated" \in events
       /\ ~AllSegmentsLegal(output_name) => "invalid" \in events

\* ---------------------------------------------------------------------- C6
Min(S) == CHOOSE x \in S : \A y \in S : x <= y

Parsed == pc # "start"

\* The parse got as far as the token at position i.
Reached(i) == err_at = 0 \/ err_at >= i

BareIdx == { i \in 1..Len(Rest) : Bare(Rest[i]) }
NonEmptyBareIdx == { i \in BareIdx : Rest[i] # << >> }

\* C6 as stated: the first token without '=' becomes output_name, whatever
\* it is (the empty string included), and the next token without '=' the
\* parse comes to fails it with SyntaxError(that token).
C6_SecondBareTokenFails ==
    (Parsed /\ Cardinality(BareIdx) >= 2) =>
       LET first == Min(BareIdx)
           later == Min(BareIdx \ {first})
       IN Reached(later) =>
             /\ raised = Exc("SyntaxError", Rest[later])
             /\ err_at = later

\* C6 as amended: the first non-empty token without '=' stays output_name
\* (an empty one is replaced by the next token without '='), and the next
\* token without '=' the parse comes to fails it with SyntaxError(that token).
C6_BareTokenAfterNameFails ==
    Parsed =>
       /\ NonEmptyBareIdx # {} =>
             LET first == Min(NonEmptyBareIdx)
                 after == { i \in BareIdx : i > first }
             IN after # {} =>
                   (Reached(Min(after)) =>
                       /\ raised = Exc("SyntaxError", Rest[Min(after)])
                       /\ err_at = Min(after))
       /\ pc = "lookup" =>
             output_name = IF NonEmptyBareIdx # {} THEN Rest[Min(NonEmptyBareIdx)]
                           ELSE IF BareIdx # {} THEN << >>
                           ELSE None

\* A parse that failed on a token without '=' that follows the output name.
C6_Witness ==
    /\ ParseFailed
    /\ NonEmptyBareIdx # {}
    /\ err_at \in BareIdx
    /\ err_at > Min(NonEmptyBareIdx)
    /\ raised = Exc("SyntaxError", Rest[err_at])

\* ---------------------------------------------------------------------- C7
\* The part of tok after its first '='.
ValueOf(tok) == SubSeq(tok, Find(tok, "=") + 2, Len(tok))

\* C7: every token with an '=' past its first character is taken as
\* key=value without error, and after the parse the override map holds, for
\* each key, the value of the last token with that key.
C7_KeyValueAccepted ==
    Parsed =>
       /\ \A i \in 1..Len(Rest) :
             (HasKey(Rest[i]) /\ Reached(i)) => err_at # i
       /\ pc = "lookup" =>
             \A i \in 1..Len(Rest) : HasKey(Rest[i]) =>
                /\ KeyOf(Rest[i]) \in DOMAIN opts
                /\ (\A j \in (i+1)..Len(Rest) :
                       HasKey(Rest[j]) => KeyOf(Rest[j]) # KeyOf(Rest[i]))
                      => opts[KeyOf(Rest[i])] = ValueOf(Rest[i])

\* ---------------------------------------------------------------------- C8
SvnIdx == { i \in 1..Len(Rest) : SvnToken(Rest[i]) }

\* C8 as stated: a command line with a token whose key contains
\* 'svn-repository' fails the parse with the svn_warning SyntaxError, wherever
\* the token stands and whatever the other tokens are.
C8_SvnAlwaysUnsupportedError ==
    (Parsed /\ SvnIdx # {}) =>
       /\ ParseFailed
       /\ raised = Exc("SyntaxError", MSG_SVN_WARNING)

\* C8 as amended: such a command line never yields a parsed result: the
\* parse raises at or before the first such token, with the svn_warning
\* SyntaxError when that token is the one that raises and it splits at a
\* single '='; a token that fails before it raises its own error.
C8_SvnNeverParses ==
    (Parsed /\ SvnIdx # {}) =>
       /\ ParseFailed
       /\ Finished
       /\ Len(calls) = 0
       /\ err_at >= 1
       /\ err_at <= Min(SvnIdx)
       /\ (err_at = Min(SvnIdx) /\ Count(Rest[err_at], "=") = 1)
             => raised = Exc("SyntaxError", MSG_SVN_WARNING)

\* A parse that the svn token itself failed, after a token that was accepted.
C8_Witness ==
    /\ ParseFailed
    /\ SvnIdx # {}
    /\ err_at = Min(SvnIdx)
    /\ err_at > 1
    /\ raised = Exc("SyntaxError", MSG_SVN_WARNING)

\* ---------------------------------------------------------------------- C9
StartsWithEq(tok) == Len(tok) > 0 /\ tok[1] = "="

\* C9 as stated: a token starting with '=' fails the parse with
\* SyntaxError(that token) wherever it stands, the first position included.
C9_LeadingEqAlwaysMalformed ==
    Parsed =>
       \A i \in 1..Len(argv0) : StartsWithEq(argv0[i]) =>
          /\ ParseFailed
          /\ (i = 1 \/ Reached(i - 1)) => raised = Exc("SyntaxError", argv0[i])

\* C9 as amended: a token starting with '=' that stands after the template
\* name fails the parse, with SyntaxError(that token) when the parse comes to
\* it; in the first position it is the template name and the parse succeeds.
C9_LeadingEqAfterTemplateMalformed ==
    Parsed =>
       /\ \A i \in 1..Len(Rest) : StartsWithEq(Rest[i]) =>
             /\ ParseFailed
             /\ err_at >= 1
             /\ err_at <= i
             /\ err_at = i => raised = Exc("SyntaxError", Rest[i])
       /\ (Len(argv0) > 0 /\ StartsWithEq(argv0[1]) /\ pc = "lookup")
             => template_name = argv0[1]

\* A parse that failed on a token starting with '=', after an accepted token.
C9_Witness ==
    /\ ParseFailed
    /\ err_at > 1
    /\ StartsWithEq(Rest[err_at])
    /\ raised = Exc("SyntaxError", Rest[err_at])

\* --------------------------------------------------------------------- C10
\* C10: an interrupt ends the run as Cancelled with exit code 0, at the name
\* prompt as well as during command.run; after an interrupt or a 'q' at the
\* prompt command.run is never called.
C10_InterruptCancels ==
    /\ events \cap {"prompt_interrupt", "run_interrupt"} # {} =>
          /\ Finished
          /\ ExitCode = << 0 >>
          /\ raised = NoExc
    /\ events \cap {"prompt_interrupt", "quit"} # {} => Len(calls) = 0

\* --------------------------------------------------------------------- C11
Max(S) == CHOOSE x \in S : \A y \in S : x >= y

\* The value the command line gives key k: that of the last token with it.
CliValue(k) ==
    ValueOf(Rest[Max({ i \in 1..Len(Rest) : HasKey(Rest[i]) /\ KeyOf(Rest[i]) = k })])

CliKeys == { KeyOf(Rest[i]) : i \in { j \in 1..Len(Rest) : HasKey(Rest[j]) } }

\* C11: for every key the command line sets, the value handed to
\* command.run for that key is the command line's value.  __call__ never
\* reads the dotfile: the key=value tokens it hands over are the command
\* line's and no others, so no persisted value stands in for one of them.
C11_CliValueHanded ==
    \A c \in 1..Len(calls) :
       LET tail == CallTail(calls[c])
           pairs == { j \in 1..Len(tail) : HasKey(tail[j]) }
       IN /\ \A k \in CliKeys : \E j \in pairs : KeyOf(tail[j]) = k
          /\ \A j \in pairs :
                /\ KeyOf(tail[j]) \in CliKeys
                /\ ValueOf(tail[j]) = CliValue(KeyOf(tail[j]))

\* A call made for a command line that sets one key twice.
C11_Witness ==
    /\ Len(calls) = 1
    /\ \E i, j \in 1..Len(Rest) :
          /\ i < j
          /\ HasKey(Rest[i])
          /\ HasKey(Rest[j])
          /\ KeyOf(Rest[i]) = KeyOf(Rest[j])
          /\ ValueOf(Rest[i]) # ValueOf(Rest[j])

\* --------------------------------------------------------------------- C12
\* C12: when the template declares ndots, _checkdots rejects every name
\* whose number of dots differs from it; when it declares none, every name
\* of at most five dots is accepted.
C12_DepthMustMatch ==
    Checked =>
       /\ (template.ndots # NoNdots /\ Count(output_name, ".") # template.ndots)
             => "invalid" \in events
       /\ (template.ndots = NoNdots /\ Count(output_name, ".") <= MaxDots)
             => "validated" \in events

\* --------------------------------------------------------------------- C13
\* C13: _checkdots rejects every name of more than five dots, whatever
\* ndots the template declares (none, or more than five); no token without
\* '=' of more than five dots is ever handed to command.run.
C13_FiveDotsCeiling ==
    /\ (Checked /\ Count(output_name, ".") > MaxDots) =>
          /\ "invalid" \in events
          /\ "validated" \notin events
          /\ Finished
          /\ Len(calls) = 0
    /\ \A c \in 1..Len(calls) : \A j \in 1..Len(CallTail(calls[c])) :
          Bare(CallTail(calls[c])[j]) => Count(CallTail(calls[c])[j], ".") <= MaxDots

\* A name of six dots rejected for a template that declares six dots.
C13_Witness ==
    /\ "invalid" \in events
    /\ Count(output_name, ".") > MaxDots
    /\ template.ndots = Count(output_name, ".")

\* --------------------------------------------------------------------- C14
\* C14: _process_args leaves the list it is given as it was: after the
\* call, successful or not, argv holds the tokens the caller passed.
C14_ArgsUntouched ==
    Parsed => argv = argv0

\* --------------------------------------------------------------------- C16
\* C16: every list handed to command.run is '-q', '-t', the template name,
\* then the output name (when there is one) before every key=value token,
\* each override once, and --list-variables when the bypass was taken; with
\* no output name there is no positional token.
C16_RunArgsShape ==
    \A c \in 1..Len(calls) :
       LET call == calls[c]
           tail == CallTail(call)
           named == output_name # None
           first == IF named THEN 2 ELSE 1
           last == Len(tail) - Len(special_args)
       IN /\ Len(call) >= 3
          /\ SubSeq(call, 1, 3) = << S_dash_q, S_dash_t, template_name >>
          /\ last = (first - 1) + Cardinality(DOMAIN opts)
          /\ named => tail[1] = output_name
          /\ \A j \in first..last : HasKey(tail[j])
          /\ SubSeq(tail, last + 1, Len(tail)) = special_args
          /\ \A k \in DOMAIN opts :
                Cardinality({ j \in first..last :
                    KeyOf(tail[j]) = k /\ ValueOf(tail[j]) = opts[k] }) = 1

\* A call with an output name and two overrides.
C16_Witness ==
    /\ Len(calls) = 1
    /\ output_name # None
    /\ Cardinality(DOMAIN opts) = 2

\* ===================================================================== run()
S_templer == <<"t","e","m","p","l","e","r">>
S_help    == <<"-","-","h","e","l","p">>
S_mkconf  == <<"-","-","m","a","k","e","-","c","o","n","f","i","g","-","f","i","l","e">>
S_list    == <<"-","-","l","i","s","t">>
S_version == <<"-","-","v","e","r","s","i","o","n">>

\* The command-line tokens the runs of run() are drawn from.
RunTokens == { S_help, S_mkconf, S_list, S_version, S_listvars, S_skel,
               S_foo_bar, S_k_v }

RunArgLists == UNION { [1..n -> RunTokens] : n \in 0..MaxArgs }

\* sys.argv: the program name, then the command line.
SysArgv == << S_templer >> \o argv0

\* flag.startswith-style test: a token that only begins with the flag counts.
HasFlag_prefix(flag, args) ==
    \E i \in 1..Len(args) :
       Len(args[i]) >= Len(flag) /\ SubSeq(args[i], 1, Len(flag)) = flag

\* "flag in sys.argv"
HasFlag(flag, args) == InList(flag, args)

\* A process started through run(): nothing of __call__ has happened yet.
InitRun ==
    /\ argv0 \in RunArgLists
    /\ argv = << >>
    /\ pc = "run"
    /\ template_name = None
    /\ output_name = None
    /\ opts = EmptyDict
    /\ template = NoTemplate
    /\ short_circuit = FALSE
    /\ special_args = << >>
    /\ answer = None
    /\ prompts = 0
    /\ calls = << >>
    /\ sys_exit = << >>
    /\ raised = NoExc
    /\ err_at = 0
    /\ stdout = << >>
    /\ events = {}
    /\ ObjInit
    /\ cfg = NoConfig

\* run(), lines 509-527.  show_help, generate_dotfile, list_verbose,
\* show_version and usage each print and call sys.exit(0) (lines 333-394), so
\* the first flag found, in the order of the tests, ends the process.
\* Otherwise runner(args) is called with the copy sys.argv[1:].
Run ==
    /\ pc = "run"
    /\ LET mode == IF HasFlag(S_help, SysArgv) THEN "show_help"
                   ELSE IF HasFlag(S_mkconf, SysArgv) THEN "generate_dotfile"
                   ELSE IF HasFlag(S_list, SysArgv) THEN "list_verbose"
                   ELSE IF HasFlag(S_version, SysArgv) THEN "show_version"
                   ELSE IF Len(SysArgv) = 1 THEN "usage"
                   ELSE "runner"
       IN IF mode = "runner"
          THEN /\ argv' = Tail(SysArgv)
               /\ pc' = "start"
               /\ UNCHANGED << sys_exit, stdout, events >>
          ELSE /\ stdout' = Append(stdout, mode)
               /\ sys_exit' = << 0 >>
               /\ pc' = "done"
               /\ events' = events \cup {mode}
               /\ UNCHANGED argv
    /\ UNCHANGED objvars
    /\ UNCHANGED << argv0, template_name, output_name, opts, template,
                    short_circuit, special_args, answer, prompts, calls,
                    raised, err_at >>

NextRun ==
    \/ Run
    \/ Next

SpecRun == InitRun /\ [][NextRun]_vars

\* --------------------------------------------------------------------- C15
\* The report mode each flag stands for.
ModeOf(flag) ==
    IF flag = S_help THEN "show_help"
    ELSE IF flag = S_mkconf THEN "generate_dotfile"
    ELSE IF flag = S_list THEN "list_verbose"
    ELSE "show_version"

ReportFlags == { S_help, S_mkconf, S_list, S_version }
ReportModes == { ModeOf(f) : f \in ReportFlags }
FlagsGiven  == { f \in ReportFlags : InList(f, argv0) }

\* C15: a command line holding --help, --list, --make-config-file or
\* --version ends run() in the report mode of one of the flags it holds, with
\* exit code 0, without parsing, lookup, prompt or generator; and
\* --list-variables alone never leads into the --list report.
C15_ReportFlagsShortCircuit ==
    /\ (pc # "run" /\ FlagsGiven # {}) =>
          /\ Finished
          /\ ExitCode = << 0 >>
          /\ \E f \in FlagsGiven : events = { ModeOf(f) }
          /\ prompts = 0
          /\ Len(calls) = 0
          /\ template_name = None
          /\ template = NoTemplate
    /\ events \cap ReportModes # {} => FlagsGiven # {}
    /\ (pc # "run" /\ FlagsGiven = {} /\ InList(S_listvars, argv0)) =>
          "list_verbose" \notin events

\* The --list report, reached with --list-variables also on the command line.
C15_Witness ==
    /\ Finished
    /\ "list_verbose" \in events
    /\ InList(S_listvars, argv0)

\* ======================================================== Runner.__init__
\* Most Runners made after templer_runner.
MaxRunners == 3

MSG_TEXTS == <<"If passed, texts argument must be a dict">>

\* The names and texts dicts Runners are made with.
RunnerNames == { "templer", "zopeskel" }
TextsArgs ==
    { NoTexts,
      [k \in {"usage"} |-> "custom usage"],
      [k \in {"svn_warning", "help_prompt"} |-> "custom text"] }

\* The module imported and no call of a runner under way.
InitTexts ==
    /\ argv0 = << >>
    /\ argv = << >>
    /\ pc = "imported"
    /\ template_name = None
    /\ output_name = None
    /\ opts = EmptyDict
    /\ template = NoTemplate
    /\ short_circuit = FALSE
    /\ special_args = << >>
    /\ answer = None
    /\ prompts = 0
    /\ calls = << >>
    /\ sys_exit = << >>
    /\ raised = NoExc
    /\ err_at = 0
    /\ stdout = << >>
    /\ events = {}
    /\ ObjInit
    /\ cfg = NoConfig

\* Runner(name=name, texts=texts) with a dict, lines 228-246.
Construct ==
    /\ Len(runners) <= MaxRunners
    /\ \E name \in RunnerNames, texts \in TextsArgs :
          /\ class_texts' = Constructed(name, texts).class_texts
          /\ runners' = Append(runners, Constructed(name, texts).runner)
    /\ raised' = NoExc
    /\ UNCHANGED cfg
    /\ UNCHANGED << argv0, argv, pc, template_name, output_name, opts, template,
                    short_circuit, special_args, answer, prompts, calls,
                    sys_exit, err_at, stdout, events >>

\* Runner(texts=something that is no dict), lines 244-245: ValueError, and
\* no Runner comes of it.
ConstructBadTexts ==
    /\ Len(runners) <= MaxRunners
    /\ raised' = Exc("ValueError", MSG_TEXTS)
    /\ UNCHANGED objvars
    /\ UNCHANGED << argv0, argv, pc, template_name, output_name, opts, template,
                    short_circuit, special_args, answer, prompts, calls,
                    sys_exit, err_at, stdout, events >>

NextTexts ==
    \/ Construct
    \/ ConstructBadTexts

SpecTexts == InitTexts /\ [][NextTexts]_vars

\* --------------------------------------------------------------------- C18
\* C18: making a Runner with a texts argument changes the texts of that
\* Runner only: every Runner, templer_runner included, goes on seeing the
\* texts it saw when it was made, and the class keeps its default texts.
C18_TextsPerRunner ==
    /\ class_texts = DefaultTexts
    /\ \A i \in 1..Len(runners) : TextsOf(i) = runners[i].seen

\* ==================================================== ConfigResolver (4.3)
\* The resolution of the default-configuration file is described by the
\* specification (sections 3, 4.3 and 9): a DEFAULT section, one section per
\* template, values with %(key)s placeholders, and the command line's
\* key=value pairs put over the result.

\* Most keys a configuration store has.
MaxKeys == 2

KeyNames == << "a", "b", "c", "d" >>
Keys == { KeyNames[i] : i \in 1..MaxKeys }

\* A key no section sets.
MissingKey == "zz"

\* A configuration value: its literal text, and the key of its %(key)s
\* placeholder ("" when it has none).
NoRef == ""
DefaultValues ==
    { [lit |-> "DEFAULT", ref |-> r] : r \in {NoRef, KeyNames[1]} }
SectionValues ==
    { [lit |-> "section", ref |-> r] : r \in {NoRef, MissingKey} \cup Keys }

Sections(values) == UNION { [D -> values] : D \in SUBSET Keys }

\* load(path): the stores a file can hold.
ConfigStores ==
    { [default |-> d, section |-> t] :
        d \in Sections(DefaultValues), t \in Sections(SectionValues) }

\* cli_overrides: the key=value pairs of the command line.
CliOverrides == { NoTexts, [k \in {KeyNames[1]} |-> << "cli" >>] }

\* Step 1 of resolve_for: DEFAULT, with the template's section over it.
Merged(store) == DictUpdate(store.default, store.section)

\* A placeholder's key is under resolution already: the value refers to
\* itself, directly or through other values.
OnStack_top(ref, stack) == stack # << >> /\ stack[Len(stack)] = ref

OnStack(ref, stack) == \E i \in 1..Len(stack) : stack[i] = ref

\* The cycle a placeholder closes: the keys under resolution from ref on.
CycleOf(ref, stack) ==
    SubSeq(stack, CHOOSE i \in 1..Len(stack) : stack[i] = ref, Len(stack))

InOrder(k, order) == \E i \in 1..Len(order) : order[i] = k

\* resolve_for(store, template_name, cli_overrides) is called.
InitConfig ==
    /\ argv0 = << >>
    /\ argv = << >>
    /\ pc = "imported"
    /\ template_name = None
    /\ output_name = None
    /\ opts = EmptyDict
    /\ template = NoTemplate
    /\ short_circuit = FALSE
    /\ special_args = << >>
    /\ answer = None
    /\ prompts = 0
    /\ calls = << >>
    /\ sys_exit = << >>
    /\ raised = NoExc
    /\ err_at = 0
    /\ stdout = << >>
    /\ events = {}
    /\ ObjInit
    /\ \E store \in ConfigStores, cli \in CliOverrides :
          cfg = [ pc |-> "merge", store |-> store, cli |-> cli,
                  merged |-> NoTexts, order |-> << >>, stack |-> << >>,
                  values |-> NoTexts, err |-> NoExc, result |-> NoTexts ]

\* Step 1.
Merge ==
    /\ cfg.pc = "merge"
    /\ cfg' = [cfg EXCEPT !.merged = Merged(cfg.store), !.pc = "order"]
    /\ UNCHANGED << class_texts, runners >>
    /\ UNCHANGED callvars

\* Step 2, the dependency pass: take a key not yet ordered.
Visit ==
    /\ cfg.pc = "order"
    /\ cfg.stack = << >>
    /\ \E k \in DOMAIN cfg.merged :
          /\ ~ InOrder(k, cfg.order)
          /\ cfg' = [cfg EXCEPT !.stack = << k >>]
    /\ UNCHANGED << class_texts, runners >>
    /\ UNCHANGED callvars

\* Step 2, the dependency pass: look at the placeholder of the key on top.
\* A key under resolution again is a cycle; a key with no placeholder, or
\* whose placeholder is ordered or names no key of the merged section, is
\* ordered after what it refers to.
Follow ==
    /\ cfg.pc = "order"
    /\ cfg.stack # << >>
    /\ LET top == cfg.stack[Len(cfg.stack)]
           ref == cfg.merged[top].ref
       IN  IF ref # NoRef /\ OnStack(ref, cfg.stack)
           THEN cfg' = [cfg EXCEPT
                          !.err = Exc("CircularReferenceError",
                                      CycleOf(ref, cfg.stack)),
                          !.pc = "failed"]
           ELSE IF \/ ref = NoRef
                   \/ ref \notin DOMAIN cfg.merged
                   \/ InOrder(ref, cfg.order)
           THEN cfg' = [cfg EXCEPT
                          !.order = Append(cfg.order, top),
                          !.stack = SubSeq(cfg.stack, 1, Len(cfg.stack) - 1)]
           ELSE /\ Len(cfg.stack) <= MaxKeys
                /\ cfg' = [cfg EXCEPT !.stack = Append(cfg.stack, ref)]
    /\ UNCHANGED << class_texts, runners >>
    /\ UNCHANGED callvars

\* Step 2, the evaluation: the keys in dependency order, each placeholder
\* replaced by the value already worked out for its key.
Interpolate ==
    /\ cfg.pc = "order"
    /\ cfg.stack = << >>
    /\ \A k \in DOMAIN cfg.merged : InOrder(k, cfg.order)
    /\ IF Cardinality(DOMAIN cfg.values) = Len(cfg.order)
       THEN cfg' = [cfg EXCEPT !.pc = "override"]
       ELSE LET k == cfg.order[Cardinality(DOMAIN cfg.values) + 1]
                v == cfg.merged[k]
            IN  IF v.ref = NoRef
                THEN cfg' = [cfg EXCEPT !.values =
                               DictUpdate(cfg.values,
                                          [x \in {k} |-> << v.lit >>])]
                ELSE IF v.ref \notin DOMAIN cfg.merged
                THEN cfg' = [cfg EXCEPT
                               !.err = Exc("UnknownVariableError", << v.ref >>),
                               !.pc = "failed"]
                ELSE cfg' = [cfg EXCEPT !.values =
                               DictUpdate(cfg.values,
                                          [x \in {k} |->
                                             << v.lit >> \o cfg.values[v.ref]])]
    /\ UNCHANGED << class_texts, runners >>
    /\ UNCHANGED callvars

\* Step 3.
Override ==
    /\ cfg.pc = "override"
    /\ cfg' = [cfg EXCEPT !.result = DictUpdate(cfg.values, cfg.cli),
                          !.pc = "done"]
    /\ UNCHANGED << class_texts, runners >>
    /\ UNCHANGED callvars

NextConfig ==
    \/ Merge
    \/ Visit
    \/ Follow
    \/ Interpolate
    \/ Override

\* resolve_for is one sequential computation: it takes its next step as long
\* as it has one.
SpecConfig == InitConfig /\ [][NextConfig]_vars /\ WF_vars(NextConfig)

\* --------------------------------------------------------------------- C17
\* The key reached from k by following n placeholders of the merged section.
RECURSIVE Refer(_, _, _)
Refer(m, k, n) ==
    IF n = 0 THEN k
    ELSE IF k \notin DOMAIN m \/ m[k].ref = NoRef THEN NoRef
    ELSE Refer(m, m[k].ref, n - 1)

\* A value of the store refers to itself, directly or through others.
SelfReferring ==
    /\ cfg.pc # "none"
    /\ \E k \in DOMAIN Merged(cfg.store) :
          \E n \in 1..MaxKeys : Refer(Merged(cfg.store), k, n) = k

CircularFailure ==
    /\ cfg.pc = "failed"
    /\ cfg.err.type = "CircularReferenceError"

====
